---- MODULE Spec2Model ----
(***************************************************************************)
(* Relay matching and endpoint construction of mullvad-relay-selector      *)
(* (matcher.rs) over the relay catalog types of mullvad-types              *)
(* (relay_list.rs).                                                        *)
(*                                                                         *)
(* A RelayMatcher<T> is a record [location, providers, ownership, tunnel]; *)
(* the tunnel strategy T is a record tagged by `kind`.  Option values are  *)
(* records tagged "None"/"Some", Constraint values are records tagged      *)
(* "Any"/"Only".  A call that aborts (panic!/unreachable!/arithmetic       *)
(* overflow under overflow checks) yields the record tagged "panic".       *)
(***************************************************************************)
EXTENDS Integers, Sequences, FiniteSets

VARIABLES
    matcher,          \* the RelayMatcher<T> value the caller holds
    op,               \* the operation called last
    relay,            \* the &Relay argument of the call (NoRelay when none)
    port_index,       \* the value rand::thread_rng().gen_range drew (0 when none)
    result,           \* what the call returned
    overflow_checks,  \* build profile: u16 overflow panics (TRUE) or wraps (FALSE)
    target_android    \* build target: cfg(target_os = "android")

vars == <<matcher, op, relay, port_index, result, overflow_checks, target_android>>

----------------------------------------------------------------------------
(* Bounds of the model *)

MaxHosts == 2
MaxRanges == 2

(* u16: WireguardEndpointData.port_ranges is Vec<(u16, u16)> *)
U16Max == 65535
U16Mod == U16Max + 1

----------------------------------------------------------------------------
(* Option<T>, Constraint<T>, aborts *)

None == [tag |-> "None"]
Some(v) == [tag |-> "Some", value |-> v]
Any == [tag |-> "Any"]
Only(v) == [tag |-> "Only", value |-> v]
Panic(msg) == [tag |-> "panic", message |-> msg]

(* a None returned after log::error!(msg) *)
NoneLogged(msg) == [tag |-> "None", log |-> msg]

is_any(c) == c.tag = "Any"

(* An aborted u16 computation, as an integer outside the u16 values *)
Overflow == -1

----------------------------------------------------------------------------
(* relay_list.rs: the relay catalog *)

Openvpn == [variant |-> "Openvpn"]
Bridge == [variant |-> "Bridge"]
Wireguard(data) == [variant |-> "Wireguard", data |-> data]
WireguardRelayEndpointData(key) == [public_key |-> key]

OpenVpnEndpoint(port, protocol) == [port |-> port, protocol |-> protocol]
OpenVpnEndpointData(ports) == [ports |-> ports]

WireguardEndpointData(ranges, gw4, gw6) ==
    [port_ranges |-> ranges, ipv4_gateway |-> gw4, ipv6_gateway |-> gw6]

Relay(hostname, v4, v6, owned, provider, endpoint_data, location) ==
    [hostname |-> hostname, ipv4_addr_in |-> v4, ipv6_addr_in |-> v6,
     owned |-> owned, provider |-> provider, endpoint_data |-> endpoint_data,
     location |-> location]

NoRelay == [hostname |-> ""]

(* Ipv4Addr / Ipv6Addr into IpAddr *)
IpAddrV4(a) == [family |-> "V4", addr |-> a]
IpAddrV6(a) == [family |-> "V6", addr |-> a]

(* RelayEndpointData::unwrap_wireguard_ref *)
unwrap_wireguard_ref(endpoint_data) ==
    IF endpoint_data.variant = "Wireguard"
    THEN Some(endpoint_data.data)
    ELSE Panic("not a wireguard endpoint")

----------------------------------------------------------------------------
(* relay_constraints.rs: the relay-level predicates the matcher calls *)

location_matches(c, r) ==
    \/ is_any(c)
    \/ /\ r.location.tag = "Some"
       /\ r.location.value = c.value

providers_matches(c, r) == is_any(c) \/ r.provider \in c.value

ownership_matches(c, r) ==
    \/ is_any(c)
    \/ c.value = "MullvadOwned" /\ r.owned
    \/ c.value = "Rented" /\ ~r.owned

----------------------------------------------------------------------------
(* u16 arithmetic: wraps modulo 2^16, or aborts under overflow checks *)

u16_add(a, b, checks) ==
    IF a = Overflow \/ b = Overflow THEN Overflow
    ELSE IF a + b <= U16Max THEN a + b
    ELSE IF checks THEN Overflow
    ELSE (a + b) % U16Mod

u16_sub(a, b, checks) ==
    IF a = Overflow \/ b = Overflow THEN Overflow
    ELSE IF a - b >= 0 THEN a - b
    ELSE IF checks THEN Overflow
    ELSE (a - b + U16Mod) % U16Mod

----------------------------------------------------------------------------
(* matcher.rs: OpenVpnMatcher *)

OpenVpnMatcher_new(constraints, data) ==
    [kind |-> "OpenVpnMatcher", constraints |-> constraints, data |-> data]

(* a filter that rejects only Wireguard relays, so Bridge relays pass *)
OpenVpnMatcher_filter_accepting_bridge(self, r) ==
    IF r.endpoint_data.variant = "Wireguard" THEN None ELSE Some(r)

OpenVpnMatcher_filter_matching_endpoints(self, r) ==
    IF r.endpoint_data.variant # "Openvpn" THEN None ELSE Some(r)

OpenVpnMatcher_mullvad_endpoint(self, r) ==
    Some([type |-> "OpenVpn", address |-> IpAddrV4(r.ipv4_addr_in),
          port |-> 53, protocol |-> "Udp"])

OpenVpnMatcher_matches(self, endpoint) ==
    IF is_any(self.constraints.port) THEN TRUE
    ELSE LET transport_port == self.constraints.port.value IN
         \E i \in 1..Len(endpoint.ports) :
            /\ transport_port.protocol = endpoint.ports[i].protocol
            /\ \/ is_any(transport_port.port)
               \/ transport_port.port = Only(endpoint.ports[i].port)

----------------------------------------------------------------------------
(* matcher.rs: WireguardMatcher *)

WireguardMatcher_new(constraints, data) ==
    [kind |-> "WireguardMatcher", peer |-> None, port |-> constraints.port,
     ip_version |-> constraints.ip_version, data |-> data]

get_address_for_wireguard_relay(self, r) ==
    IF is_any(self.ip_version) \/ self.ip_version = Only("V4")
    THEN Some(IpAddrV4(r.ipv4_addr_in))
    ELSE IF r.ipv6_addr_in.tag = "Some"
         THEN Some(IpAddrV6(r.ipv6_addr_in.value))
         ELSE None

(* the closure |range| (1 + range.1 - range.0) as u64, evaluated in u16 *)
get_port_amount(range, checks) ==
    u16_sub(u16_add(1, range[2], checks), range[1], checks)

(* data.port_ranges.iter().map(get_port_amount).sum() of the first n ranges *)
RECURSIVE sum_port_amount(_, _, _)
sum_port_amount(ranges, n, checks) ==
    IF n = 0 THEN 0
    ELSE LET rest == sum_port_amount(ranges, n - 1, checks)
             this == get_port_amount(ranges[n], checks)
         IN IF rest = Overflow \/ this = Overflow THEN Overflow ELSE rest + this

port_amount(data, checks) ==
    sum_port_amount(data.port_ranges, Len(data.port_ranges), checks)

(* the for loop over data.port_ranges, from range i with the index left *)
RECURSIVE walk_port_ranges(_, _, _, _)
walk_port_ranges(ranges, i, index, checks) ==
    IF i > Len(ranges)
    THEN NoneLogged("Port selection algorithm is broken!")
    ELSE LET ports_in_range == get_port_amount(ranges[i], checks) IN
         IF ports_in_range = Overflow THEN Panic("attempt to add with overflow")
         ELSE IF index < ports_in_range
         THEN LET port == u16_add(index % U16Mod, ranges[i][1], checks) IN
              IF port = Overflow THEN Panic("attempt to add with overflow")
              ELSE Some(port)
         ELSE walk_port_ranges(ranges, i + 1, index - ports_in_range, checks)

(* the indices gen_range(0, port_amount) can draw; {0} when nothing is drawn *)
port_index_draws(self, data, checks) ==
    LET amount == port_amount(data, checks) IN
    IF is_any(self.port) /\ amount >= 1 THEN 0..(amount - 1) ELSE {0}

(* Only(port) compared with an exclusive upper end of the range *)
get_port_excluding_range_end(self, data, index, checks) ==
    IF is_any(self.port)
    THEN LET amount == port_amount(data, checks) IN
         IF amount = Overflow THEN Panic("attempt to add with overflow")
         ELSE IF amount < 1 THEN None
         ELSE walk_port_ranges(data.port_ranges, 1, index, checks)
    ELSE LET port == self.port.value IN
         IF \E i \in 1..Len(data.port_ranges) :
                data.port_ranges[i][1] <= port /\ port < data.port_ranges[i][2]
         THEN Some(port)
         ELSE None

get_port_for_wireguard_relay(self, data, index, checks) ==
    IF is_any(self.port)
    THEN LET amount == port_amount(data, checks) IN
         IF amount = Overflow THEN Panic("attempt to add with overflow")
         ELSE IF amount < 1 THEN None
         ELSE walk_port_ranges(data.port_ranges, 1, index, checks)
    ELSE LET port == self.port.value IN
         IF \E i \in 1..Len(data.port_ranges) :
                data.port_ranges[i][1] <= port /\ port <= data.port_ranges[i][2]
         THEN Some(port)
         ELSE None

wg_data_to_endpoint(self, r, data, index, checks) ==
    LET host == get_address_for_wireguard_relay(self, r) IN
    IF host.tag = "None" THEN None
    ELSE LET port == get_port_for_wireguard_relay(self, data, index, checks) IN
         IF port.tag = "None" THEN None
         ELSE IF port.tag = "panic" THEN port
         ELSE LET wg == unwrap_wireguard_ref(r.endpoint_data) IN
              IF wg.tag = "panic" THEN wg
              ELSE Some([type |-> "Wireguard",
                         peer |-> [public_key |-> wg.value.public_key,
                                   endpoint |-> [ip |-> host.value,
                                                 port |-> port.value],
                                   allowed_ips |-> "all_of_the_internet",
                                   psk |-> None],
                         exit_peer |-> None,
                         ipv4_gateway |-> data.ipv4_gateway,
                         ipv6_gateway |-> data.ipv6_gateway])

(* a filter that does not look at the multihop peer *)
WireguardMatcher_filter_ignoring_peer(self, r) ==
    IF r.endpoint_data.variant # "Wireguard" THEN None ELSE Some(r)

WireguardMatcher_filter_matching_endpoints(self, r) ==
    IF self.peer.tag = "Some" /\ self.peer.value.hostname = r.hostname THEN None
    ELSE IF r.endpoint_data.variant # "Wireguard" THEN None
    ELSE Some(r)

WireguardMatcher_mullvad_endpoint(self, r, index, checks) ==
    wg_data_to_endpoint(self, r, self.data, index, checks)

----------------------------------------------------------------------------
(* matcher.rs: AnyTunnelMatcher *)

(* tunnel_type Any answered by the WireGuard matcher alone *)
AnyTunnelMatcher_filter_wireguard_only(self, r) ==
    IF is_any(self.tunnel_type) \/ self.tunnel_type = Only("Wireguard")
    THEN WireguardMatcher_filter_matching_endpoints(self.wireguard, r)
    ELSE OpenVpnMatcher_filter_matching_endpoints(self.openvpn, r)

AnyTunnelMatcher_filter_matching_endpoints(self, r) ==
    IF is_any(self.tunnel_type)
    THEN LET wireguard_relay ==
                 WireguardMatcher_filter_matching_endpoints(self.wireguard, r)
             openvpn_relay ==
                 OpenVpnMatcher_filter_matching_endpoints(self.openvpn, r)
         IN IF wireguard_relay.tag = "Some" /\ openvpn_relay.tag = "None"
            THEN wireguard_relay
            ELSE IF wireguard_relay.tag = "None" /\ openvpn_relay.tag = "Some"
            THEN openvpn_relay
            ELSE IF wireguard_relay.tag = "Some" /\ openvpn_relay.tag = "Some"
            THEN Panic("relay cannot match multiple endpoint types")
            ELSE None
    ELSE IF self.tunnel_type = Only("OpenVpn")
    THEN OpenVpnMatcher_filter_matching_endpoints(self.openvpn, r)
    ELSE WireguardMatcher_filter_matching_endpoints(self.wireguard, r)

AnyTunnelMatcher_mullvad_endpoint(self, r, index, checks, android) ==
    IF android
    THEN WireguardMatcher_mullvad_endpoint(self.wireguard, r, index, checks)
    ELSE IF is_any(self.tunnel_type)
    THEN LET openvpn == OpenVpnMatcher_mullvad_endpoint(self.openvpn, r) IN
         IF openvpn.tag = "Some" THEN openvpn
         ELSE WireguardMatcher_mullvad_endpoint(self.wireguard, r, index, checks)
    ELSE IF self.tunnel_type = Only("OpenVpn")
    THEN OpenVpnMatcher_mullvad_endpoint(self.openvpn, r)
    ELSE WireguardMatcher_mullvad_endpoint(self.wireguard, r, index, checks)

----------------------------------------------------------------------------
(* matcher.rs: the TunnelMatcher trait, dispatched on the strategy *)

filter_matching_endpoints(tunnel, r) ==
    CASE tunnel.kind = "AnyTunnelMatcher" ->
             AnyTunnelMatcher_filter_matching_endpoints(tunnel, r)
      [] tunnel.kind = "WireguardMatcher" ->
             WireguardMatcher_filter_matching_endpoints(tunnel, r)
      [] tunnel.kind = "OpenVpnMatcher" ->
             OpenVpnMatcher_filter_matching_endpoints(tunnel, r)

mullvad_endpoint(tunnel, r, index, checks, android) ==
    CASE tunnel.kind = "AnyTunnelMatcher" ->
             AnyTunnelMatcher_mullvad_endpoint(tunnel, r, index, checks, android)
      [] tunnel.kind = "WireguardMatcher" ->
             WireguardMatcher_mullvad_endpoint(tunnel, r, index, checks)
      [] tunnel.kind = "OpenVpnMatcher" ->
             OpenVpnMatcher_mullvad_endpoint(tunnel, r)

----------------------------------------------------------------------------
(* matcher.rs: RelayMatcher<T> *)

RelayMatcher_new(constraints, openvpn_data, wireguard_data) ==
    [location |-> constraints.location,
     providers |-> constraints.providers,
     ownership |-> constraints.ownership,
     tunnel |-> [kind |-> "AnyTunnelMatcher",
                 wireguard |-> WireguardMatcher_new(
                                   constraints.wireguard_constraints,
                                   wireguard_data),
                 openvpn |-> OpenVpnMatcher_new(
                                 constraints.openvpn_constraints, openvpn_data),
                 tunnel_type |-> constraints.tunnel_protocol]]

to_wireguard_matcher(self) ==
    [tunnel |-> self.tunnel.wireguard,
     location |-> self.location,
     providers |-> self.providers,
     ownership |-> self.ownership]

set_peer(self, peer) ==
    [self EXCEPT !.tunnel = [self.tunnel EXCEPT !.peer = Some(peer)]]

(* the ownership predicate left out of the relay-level check *)
filter_matching_relay_without_ownership(self, r) ==
    IF \/ ~location_matches(self.location, r)
       \/ ~providers_matches(self.providers, r)
    THEN None
    ELSE filter_matching_endpoints(self.tunnel, r)

filter_matching_relay(self, r) ==
    IF \/ ~location_matches(self.location, r)
       \/ ~providers_matches(self.providers, r)
       \/ ~ownership_matches(self.ownership, r)
    THEN None
    ELSE filter_matching_endpoints(self.tunnel, r)

RelayMatcher_mullvad_endpoint(self, r, index, checks, android) ==
    mullvad_endpoint(self.tunnel, r, index, checks, android)

(* the WireguardMatcher / OpenVpnMatcher a RelayMatcher's strategy holds *)
has_wireguard(self) == self.tunnel.kind \in {"AnyTunnelMatcher", "WireguardMatcher"}
wireguard_of(self) ==
    IF self.tunnel.kind = "AnyTunnelMatcher" THEN self.tunnel.wireguard
    ELSE self.tunnel
has_openvpn(self) == self.tunnel.kind = "AnyTunnelMatcher"
openvpn_of(self) == self.tunnel.openvpn

(* the indices a mullvad_endpoint call can draw: gen_range runs only when *)
(* the WireGuard port is resolved under Constraint::Any                   *)
wireguard_endpoint_draws(self, r, checks) ==
    IF get_address_for_wireguard_relay(self, r).tag = "None" THEN {0}
    ELSE port_index_draws(self, self.data, checks)

mullvad_endpoint_draws(tunnel, r, checks, android) ==
    CASE tunnel.kind = "OpenVpnMatcher" -> {0}
      [] tunnel.kind = "WireguardMatcher" ->
             wireguard_endpoint_draws(tunnel, r, checks)
      [] tunnel.kind = "AnyTunnelMatcher" ->
             IF \/ android
                \/ tunnel.tunnel_type = Only("Wireguard")
                \/ /\ is_any(tunnel.tunnel_type)
                   /\ OpenVpnMatcher_mullvad_endpoint(tunnel.openvpn, r).tag # "Some"
             THEN wireguard_endpoint_draws(tunnel.wireguard, r, checks)
             ELSE {0}

----------------------------------------------------------------------------
(* The inputs: relays, constraints and catalog data *)

HostnameOf == <<"se1", "se2", "se3", "se4">>
Ipv4Of == <<"1.2.3.4", "1.2.3.5", "1.2.3.6", "1.2.3.7">>
Hosts == 1..MaxHosts

EndpointDatas ==
    {Openvpn, Bridge, Wireguard(WireguardRelayEndpointData("K"))}

(* relays of one provider and country, with and without an IPv6 address *)
RelaysOf(hosts, v6s) ==
    {Relay(HostnameOf[h], Ipv4Of[h], v6, TRUE, "p1", ed, Some("se")) :
        h \in hosts, v6 \in v6s, ed \in EndpointDatas}

LocationConstraints == {Any, Only("se"), Only("no")}
ProvidersConstraints == {Any, Only({"p1"}), Only({"p2"})}
OwnershipConstraints == {Any, Only("MullvadOwned"), Only("Rented")}
TunnelTypes == {Any, Only("OpenVpn"), Only("Wireguard")}
IpVersions == {Any, Only("V4"), Only("V6")}

RelayConstraints(loc, prov, own, tunnel, wg, ovpn) ==
    [location |-> loc, providers |-> prov, ownership |-> own,
     tunnel_protocol |-> tunnel, wireguard_constraints |-> wg,
     openvpn_constraints |-> ovpn]

WireguardConstraints(port, ip_version) == [port |-> port, ip_version |-> ip_version]
OpenVpnConstraints(port) == [port |-> port]
TransportPort(protocol, port) == [protocol |-> protocol, port |-> port]

(* inclusive port ranges (low, high), low <= high, within u16 *)
RangePool ==
    {<<1, 2>>, <<10, 10>>, <<10, 12>>, <<U16Max - 1, U16Max>>, <<0, U16Max>>}

disjoint(a, b) == a[2] < b[1] \/ b[2] < a[1]

(* the catalog's invariant: ranges are pairwise disjoint *)
well_formed(ranges) ==
    \A i, j \in 1..Len(ranges) : i # j => disjoint(ranges[i], ranges[j])

RangeLists ==
    {ranges \in UNION {[1..n -> RangePool] : n \in 0..MaxRanges} :
        well_formed(ranges)}

PortPool == {0, 2, 3, 10, 13, U16Max}
PortConstraints == {Any} \cup {Only(p) : p \in PortPool}

Gateway4 == "10.0.0.1"
Gateway6 == "fd00::1"

OneRange == <<51820, 51820>>
OnePortData == WireguardEndpointData(<<OneRange>>, Gateway4, Gateway6)

OpenVpnPorts ==
    OpenVpnEndpointData(<<OpenVpnEndpoint(1194, "Udp"), OpenVpnEndpoint(443, "Tcp")>>)

OpenVpnDatas ==
    {OpenVpnPorts,
     OpenVpnEndpointData(<<OpenVpnEndpoint(53, "Udp")>>),
     OpenVpnEndpointData(<< >>)}

OpenVpnPortConstraints ==
    {Any,
     Only(TransportPort("Udp", Any)),
     Only(TransportPort("Tcp", Any)),
     Only(TransportPort("Tcp", Only(443))),
     Only(TransportPort("Udp", Only(53)))}

----------------------------------------------------------------------------
(* The operations.  A call records its argument, the index drawn and the  *)
(* value returned; the matcher is only changed by the operations that     *)
(* take it by value or by &mut.                                           *)

Call(name, r, index) ==
    /\ op' = name
    /\ relay' = r
    /\ port_index' = index
    /\ UNCHANGED <<matcher, overflow_checks, target_android>>

Rebuild(name, m) ==
    /\ matcher' = m
    /\ op' = name
    /\ relay' = NoRelay
    /\ port_index' = 0
    /\ result' = None
    /\ UNCHANGED <<overflow_checks, target_android>>

(* RelayMatcher::new, for every build *)
InitWith(constraints, openvpn_datas, wireguard_datas, profiles, targets) ==
    /\ matcher \in {RelayMatcher_new(c, od, wd) :
                       c \in constraints, od \in openvpn_datas,
                       wd \in wireguard_datas}
    /\ op = "new"
    /\ relay = NoRelay
    /\ port_index = 0
    /\ result = None
    /\ overflow_checks \in profiles
    /\ target_android \in targets

ToWireguardMatcher ==
    /\ matcher.tunnel.kind = "AnyTunnelMatcher"
    /\ Rebuild("to_wireguard_matcher", to_wireguard_matcher(matcher))

SetPeer(peer) ==
    /\ matcher.tunnel.kind = "WireguardMatcher"
    /\ Rebuild("set_peer", set_peer(matcher, peer))

(* a caller's assignment to the pub field tunnel.wireguard.peer *)
AssignWireguardPeer(peer) ==
    /\ matcher.tunnel.kind = "AnyTunnelMatcher"
    /\ Rebuild("assign_peer",
               [matcher EXCEPT !.tunnel.wireguard.peer = Some(peer)])

FilterMatchingRelay(r) ==
    /\ result' = filter_matching_relay(matcher, r)
    /\ Call("filter_matching_relay", r, 0)

MullvadEndpoint(r) ==
    \E index \in mullvad_endpoint_draws(matcher.tunnel, r, overflow_checks,
                                        target_android) :
        /\ result' = RelayMatcher_mullvad_endpoint(matcher, r, index,
                                                   overflow_checks,
                                                   target_android)
        /\ Call("mullvad_endpoint", r, index)

FilterMatchingEndpoints(r) ==
    /\ result' = filter_matching_endpoints(matcher.tunnel, r)
    /\ Call("filter_matching_endpoints", r, 0)

OpenVpnFilterMatchingEndpoints(r) ==
    /\ has_openvpn(matcher)
    /\ result' = OpenVpnMatcher_filter_matching_endpoints(openvpn_of(matcher), r)
    /\ Call("openvpn.filter_matching_endpoints", r, 0)

OpenVpnMullvadEndpoint(r) ==
    /\ has_openvpn(matcher)
    /\ result' = OpenVpnMatcher_mullvad_endpoint(openvpn_of(matcher), r)
    /\ Call("openvpn.mullvad_endpoint", r, 0)

OpenVpnMatches ==
    /\ has_openvpn(matcher)
    /\ result' = Some(OpenVpnMatcher_matches(openvpn_of(matcher),
                                             openvpn_of(matcher).data))
    /\ Call("openvpn.matches", NoRelay, 0)

WireguardFilterMatchingEndpoints(r) ==
    /\ has_wireguard(matcher)
    /\ result' = WireguardMatcher_filter_matching_endpoints(
                     wireguard_of(matcher), r)
    /\ Call("wireguard.filter_matching_endpoints", r, 0)

WireguardMullvadEndpoint(r) ==
    /\ has_wireguard(matcher)
    /\ \E index \in wireguard_endpoint_draws(wireguard_of(matcher), r,
                                             overflow_checks) :
        /\ result' = WireguardMatcher_mullvad_endpoint(
                         wireguard_of(matcher), r, index, overflow_checks)
        /\ Call("wireguard.mullvad_endpoint", r, index)

GetAddressForWireguardRelay(r) ==
    /\ has_wireguard(matcher)
    /\ result' = get_address_for_wireguard_relay(wireguard_of(matcher), r)
    /\ Call("get_address_for_wireguard_relay", r, 0)

GetPortForWireguardRelay ==
    /\ has_wireguard(matcher)
    /\ LET self == wireguard_of(matcher) IN
       \E index \in port_index_draws(self, self.data, overflow_checks) :
        /\ result' = get_port_for_wireguard_relay(self, self.data, index,
                                                  overflow_checks)
        /\ Call("get_port_for_wireguard_relay", NoRelay, index)

----------------------------------------------------------------------------
(* Relay filtering: every relay-level and tunnel-type constraint, with    *)
(* and without a multihop peer, over a catalog with one WireGuard port    *)

FilterRelays == RelaysOf(Hosts, {None})
FilterPeers == {r \in FilterRelays : r.endpoint_data.variant = "Wireguard"}

FilterConstraints ==
    {RelayConstraints(loc, prov, own, tunnel,
                      WireguardConstraints(Any, Any), OpenVpnConstraints(Any)) :
        loc \in LocationConstraints, prov \in ProvidersConstraints,
        own \in OwnershipConstraints, tunnel \in TunnelTypes}

Init ==
    InitWith(FilterConstraints, {OpenVpnPorts}, {OnePortData}, BOOLEAN, BOOLEAN)

Next ==
    \/ ToWireguardMatcher
    \/ \E peer \in FilterPeers : SetPeer(peer)
    \/ \E peer \in FilterPeers : AssignWireguardPeer(peer)
    \/ \E r \in FilterRelays : FilterMatchingRelay(r)
    \/ \E r \in FilterRelays : FilterMatchingEndpoints(r)
    \/ \E r \in FilterRelays : OpenVpnFilterMatchingEndpoints(r)
    \/ \E r \in FilterRelays : WireguardFilterMatchingEndpoints(r)
    \/ \E r \in FilterRelays : MullvadEndpoint(r)

Spec == Init /\ [][Next]_vars

----------------------------------------------------------------------------
(* WireGuard endpoint construction: every port and IP version constraint  *)
(* over catalogs of up to MaxRanges disjoint port ranges                  *)

EndpointRelays == RelaysOf({1}, {None, Some("fd00::2")})

EndpointConstraints ==
    {RelayConstraints(Any, Any, Any, tunnel,
                      WireguardConstraints(port, ip_version),
                      OpenVpnConstraints(Any)) :
        tunnel \in {Any, Only("Wireguard")},
        port \in PortConstraints, ip_version \in IpVersions}

EndpointDataPool ==
    {WireguardEndpointData(ranges, Gateway4, Gateway6) : ranges \in RangeLists}

InitEndpoint ==
    InitWith(EndpointConstraints, {OpenVpnPorts}, EndpointDataPool, BOOLEAN,
             {FALSE})

NextEndpoint ==
    \/ ToWireguardMatcher
    \/ GetPortForWireguardRelay
    \/ \E r \in EndpointRelays : GetAddressForWireguardRelay(r)
    \/ \E r \in EndpointRelays : WireguardMullvadEndpoint(r)
    \/ \E r \in EndpointRelays : MullvadEndpoint(r)

SpecEndpoint == InitEndpoint /\ [][NextEndpoint]_vars

----------------------------------------------------------------------------
(* OpenVPN endpoint construction: every transport port constraint over    *)
(* the catalog's (port, protocol) pairs                                   *)

OpenVpnRelays == RelaysOf(Hosts, {None})

OpenVpnConstraintsPool ==
    {RelayConstraints(Any, Any, Any, tunnel, WireguardConstraints(Any, Any),
                      OpenVpnConstraints(port)) :
        tunnel \in TunnelTypes, port \in OpenVpnPortConstraints}

InitOpenVpn ==
    InitWith(OpenVpnConstraintsPool, OpenVpnDatas, {OnePortData}, BOOLEAN,
             BOOLEAN)

NextOpenVpn ==
    \/ OpenVpnMatches
    \/ \E r \in OpenVpnRelays : OpenVpnFilterMatchingEndpoints(r)
    \/ \E r \in OpenVpnRelays : OpenVpnMullvadEndpoint(r)
    \/ \E r \in OpenVpnRelays : MullvadEndpoint(r)

SpecOpenVpn == InitOpenVpn /\ [][NextOpenVpn]_vars

----------------------------------------------------------------------------
(* Properties of relay filtering (Spec) *)

relay_predicates_pass(self, r) ==
    /\ location_matches(self.location, r)
    /\ providers_matches(self.providers, r)
    /\ ownership_matches(self.ownership, r)

(* C1: filter_matching_relay returns None whenever the location, the      *)
(* providers or the ownership predicate fails on the relay; when all      *)
(* three pass it returns what the tunnel strategy's                       *)
(* filter_matching_endpoints returns for that relay.                      *)
C1_FilterMatchingRelay ==
    op = "filter_matching_relay" =>
        IF relay_predicates_pass(matcher, relay)
        THEN result = filter_matching_endpoints(matcher.tunnel, relay)
        ELSE result = None

(* only the ownership predicate fails, on a relay the tunnel strategy     *)
(* accepts, and the relay is rejected                                     *)
C1_Witness ==
    /\ op = "filter_matching_relay"
    /\ location_matches(matcher.location, relay)
    /\ providers_matches(matcher.providers, relay)
    /\ ~ownership_matches(matcher.ownership, relay)
    /\ filter_matching_endpoints(matcher.tunnel, relay) = Some(relay)
    /\ result = None

(* C2: with a peer set on a WireGuard RelayMatcher,                       *)
(* filter_matching_endpoints returns None for every relay with the peer's *)
(* hostname, whatever its endpoint_data, and for every other relay what   *)
(* it returns with no peer set.                                           *)
C2_MultihopExclusion ==
    ( /\ op \in {"filter_matching_endpoints", "wireguard.filter_matching_endpoints"}
      /\ matcher.tunnel.kind = "WireguardMatcher"
      /\ matcher.tunnel.peer.tag = "Some" ) =>
        IF relay.hostname = matcher.tunnel.peer.value.hostname
        THEN result = None
        ELSE result = WireguardMatcher_filter_matching_endpoints(
                          [matcher.tunnel EXCEPT !.peer = None], relay)

(* the peer itself, a WireGuard relay, is rejected after set_peer *)
C2_Witness ==
    /\ op = "filter_matching_endpoints"
    /\ matcher.tunnel.kind = "WireguardMatcher"
    /\ matcher.tunnel.peer = Some(relay)
    /\ relay.endpoint_data.variant = "Wireguard"
    /\ result = None

(* C3: OpenVpnMatcher.filter_matching_endpoints returns the relay         *)
(* unchanged iff its endpoint_data is Openvpn and None for Wireguard and  *)
(* Bridge relays; WireguardMatcher.filter_matching_endpoints with no peer *)
(* returns the relay unchanged iff its endpoint_data is Wireguard and     *)
(* None for Openvpn and Bridge relays.                                    *)
C3_VariantFiltering ==
    /\ op = "openvpn.filter_matching_endpoints" =>
           result = IF relay.endpoint_data.variant = "Openvpn"
                    THEN Some(relay) ELSE None
    /\ ( /\ op = "wireguard.filter_matching_endpoints"
         /\ wireguard_of(matcher).peer = None ) =>
           result = IF relay.endpoint_data.variant = "Wireguard"
                    THEN Some(relay) ELSE None

(* the OpenVPN matcher rejects a Bridge relay *)
C3_Witness ==
    /\ op = "openvpn.filter_matching_endpoints"
    /\ relay.endpoint_data.variant = "Bridge"
    /\ result = None

(* C4: AnyTunnelMatcher.filter_matching_endpoints with tunnel_type Any:   *)
(* the two sub-matchers never both accept the relay, whatever peer is     *)
(* set, so the call never aborts; it returns the relay when exactly one   *)
(* accepts and None when neither does.  With Only(WireGuard) or           *)
(* Only(OpenVPN) it returns what the named sub-matcher returns.           *)
C4_Combinator ==
    ( /\ op = "filter_matching_endpoints"
      /\ matcher.tunnel.kind = "AnyTunnelMatcher" ) =>
        LET self == matcher.tunnel
            wireguard_relay ==
                WireguardMatcher_filter_matching_endpoints(self.wireguard, relay)
            openvpn_relay ==
                OpenVpnMatcher_filter_matching_endpoints(self.openvpn, relay)
            accepting ==
                {m \in {"wireguard", "openvpn"} :
                    \/ m = "wireguard" /\ wireguard_relay.tag = "Some"
                    \/ m = "openvpn" /\ openvpn_relay.tag = "Some"}
        IN CASE is_any(self.tunnel_type) ->
                    /\ Cardinality(accepting) <= 1
                    /\ result.tag # "panic"
                    /\ Cardinality(accepting) = 1 => result = Some(relay)
                    /\ Cardinality(accepting) = 0 => result = None
             [] self.tunnel_type = Only("Wireguard") -> result = wireguard_relay
             [] self.tunnel_type = Only("OpenVpn") -> result = openvpn_relay

(* tunnel_type Any with a peer set: a WireGuard relay other than the peer *)
(* is accepted by exactly one sub-matcher                                 *)
C4_Witness ==
    /\ op = "filter_matching_endpoints"
    /\ matcher.tunnel.kind = "AnyTunnelMatcher"
    /\ is_any(matcher.tunnel.tunnel_type)
    /\ matcher.tunnel.wireguard.peer.tag = "Some"
    /\ matcher.tunnel.wireguard.peer.value.hostname # relay.hostname
    /\ relay.endpoint_data.variant = "Wireguard"
    /\ result = Some(relay)

(* C10: for every relay RelayMatcher<AnyTunnelMatcher>.filter_matching_relay *)
(* accepts, whenever mullvad_endpoint returns an endpoint for that relay  *)
(* it is an endpoint of the tunnel protocol the relay serves: OpenVPN     *)
(* only for Openvpn relays, WireGuard only for Wireguard relays.          *)
C10_EndpointMatchesRelay ==
    ( /\ op = "mullvad_endpoint"
      /\ matcher.tunnel.kind = "AnyTunnelMatcher"
      /\ filter_matching_relay(matcher, relay).tag = "Some"
      /\ result.tag = "Some" ) =>
        /\ result.value.type = "OpenVpn" =>
               relay.endpoint_data.variant = "Openvpn"
        /\ result.value.type = "Wireguard" =>
               relay.endpoint_data.variant = "Wireguard"

----------------------------------------------------------------------------
(* Properties of OpenVPN endpoint construction (SpecOpenVpn) *)

(* C5: OpenVpnMatcher.mullvad_endpoint returns an endpoint at the relay's *)
(* IPv4 ingress address whose (port, protocol) is one of the catalog's    *)
(* OpenVPN pairs held by the matcher and satisfies the matcher's port     *)
(* constraint.                                                            *)
C5_OpenVpnEndpointFromCatalog ==
    op = "openvpn.mullvad_endpoint" =>
        LET self == openvpn_of(matcher)
            constraint == self.constraints.port
        IN /\ result.tag = "Some"
           /\ result.value.type = "OpenVpn"
           /\ result.value.address = IpAddrV4(relay.ipv4_addr_in)
           /\ \E i \in 1..Len(self.data.ports) :
                  /\ self.data.ports[i].port = result.value.port
                  /\ self.data.ports[i].protocol = result.value.protocol
           /\ \/ is_any(constraint)
              \/ /\ constraint.value.protocol = result.value.protocol
                 /\ \/ is_any(constraint.value.port)
                    \/ constraint.value.port = Only(result.value.port)

----------------------------------------------------------------------------
(* Properties of WireGuard endpoint construction (SpecEndpoint) *)

in_range(port, range) == range[1] <= port /\ port <= range[2]
in_ranges(port, ranges) == \E i \in 1..Len(ranges) : in_range(port, ranges[i])
range_size(range) == range[2] - range[1] + 1

RECURSIVE total_size(_, _)
total_size(ranges, n) ==
    IF n = 0 THEN 0 ELSE total_size(ranges, n - 1) + range_size(ranges[n])

(* C6: with port constraint Only(p), get_port_for_wireguard_relay         *)
(* succeeds iff low <= p <= high for some catalog range, then returns p   *)
(* itself; with no ranges it fails.                                       *)
C6_OnlyPort ==
    ( /\ op = "get_port_for_wireguard_relay"
      /\ ~is_any(wireguard_of(matcher).port) ) =>
        LET self == wireguard_of(matcher)
            p == self.port.value
        IN /\ result.tag \in {"Some", "None"}
           /\ result.tag = "Some" <=> in_ranges(p, self.data.port_ranges)
           /\ result.tag = "Some" => result.value = p
           /\ self.data.port_ranges = << >> => result = None

(* the pinned port is the upper end of a range and is returned *)
C6_Witness ==
    /\ op = "get_port_for_wireguard_relay"
    /\ wireguard_of(matcher).port = Only(2)
    /\ wireguard_of(matcher).data.port_ranges = <<<<10, 12>>, <<1, 2>>>>
    /\ result = Some(2)

(* C7: for a Wireguard relay, WireguardMatcher.mullvad_endpoint returns   *)
(* None iff address resolution fails (ip_version Only(V6), no IPv6        *)
(* address) or port resolution fails; otherwise it returns the WireGuard  *)
(* endpoint with the relay's public key, the resolved socket address, no  *)
(* pre-shared key, no exit peer and the catalog's gateways.               *)
C7_WireguardEndpoint ==
    ( /\ op = "wireguard.mullvad_endpoint"
      /\ relay.endpoint_data.variant = "Wireguard" ) =>
        LET self == wireguard_of(matcher)
            address_fails ==
                self.ip_version = Only("V6") /\ relay.ipv6_addr_in = None
            port == get_port_for_wireguard_relay(self, self.data, port_index,
                                                 overflow_checks)
            port_fails == port.tag = "None"
            host == IF self.ip_version = Only("V6")
                    THEN IpAddrV6(relay.ipv6_addr_in.value)
                    ELSE IpAddrV4(relay.ipv4_addr_in)
        IN IF address_fails \/ port_fails
           THEN result = None
           ELSE /\ result.tag = "Some"
                /\ result.value.type = "Wireguard"
                /\ result.value.peer.public_key =
                       relay.endpoint_data.data.public_key
                /\ result.value.peer.endpoint =
                       [ip |-> host, port |-> port.value]
                /\ result.value.peer.psk = None
                /\ result.value.exit_peer = None
                /\ result.value.ipv4_gateway = self.data.ipv4_gateway
                /\ result.value.ipv6_gateway = self.data.ipv6_gateway

(* C8: with port constraint Any, every range size is computed as          *)
(* high - low + 1 without overflow or abort, the selection returns None   *)
(* exactly when the range list is empty, otherwise a port inside one of   *)
(* the ranges, and the fall-through after the loop is never reached.      *)
C8_AnyPort ==
    ( /\ op = "get_port_for_wireguard_relay"
      /\ is_any(wireguard_of(matcher).port) ) =>
        LET ranges == wireguard_of(matcher).data.port_ranges IN
        /\ \A i \in 1..Len(ranges) :
               get_port_amount(ranges[i], overflow_checks) = range_size(ranges[i])
        /\ result.tag = "None" <=> ranges = << >>
        /\ result # NoneLogged("Port selection algorithm is broken!")
        /\ result.tag # "None" =>
               /\ result.tag = "Some"
               /\ in_ranges(result.value, ranges)

(* C9: for ranges of total size N >= 1 the map from the drawn index in    *)
(* [0, N) to the returned port is a bijection onto the union of the       *)
(* ranges.                                                                *)
C9_UniformPort ==
    ( /\ op = "get_port_for_wireguard_relay"
      /\ is_any(wireguard_of(matcher).port) ) =>
        LET self == wireguard_of(matcher)
            ranges == self.data.port_ranges
            N == total_size(ranges, Len(ranges))
            port_of(index) ==
                get_port_for_wireguard_relay(self, self.data, index,
                                             overflow_checks)
        IN N >= 1 =>
            /\ port_amount(self.data, overflow_checks) = N
            /\ \A index \in 0..(N - 1) :
                   /\ port_of(index).tag = "Some"
                   /\ in_ranges(port_of(index).value, ranges)
            /\ \A i, j \in 0..(N - 1) : port_of(i) = port_of(j) => i = j
            /\ \A k \in 1..Len(ranges) : \A port \in ranges[k][1]..ranges[k][2] :
                   \E index \in 0..(N - 1) : port_of(index) = Some(port)

====
